---- MODULE Spec2Model ----
(***************************************************************************)
(* HR video analyzer: the upload endpoint (app.py) and the process_video   *)
(* pipeline (video_processor.py) with its stages: frame extraction, face    *)
(* detection/annotation, facial-expression aggregation, audio transcription *)
(* and candidate evaluation.                                                *)
(*                                                                          *)
(* Modelling conventions                                                    *)
(*  - Python values are tagged records: None, Str(s), Dict(d), ...          *)
(*  - A file name is a record [prefix, stem, num, ext]; "frame3.jpg" is     *)
(*    [prefix |-> "", stem |-> "frame", num |-> 3, ext |-> ".jpg"].         *)
(*  - A folder is a function from file names to file contents.              *)
(*  - cv2.imwrite, os.makedirs and open(..., "w") are taken to succeed.     *)
(***************************************************************************)
EXTENDS Integers, Sequences, FiniteSets, TLC

\* ------------------------------------------------------------------ bounds
MaxFrames == 3
MaxStep == 2
MaxPipelineFrames == 2
MaxPairFrames == 1
MaxFolderFiles == 2
MaxFileNum == 1
MaxBatch == 3

\* ------------------------------------------------------------ Python values
None == [t |-> "None"]
Str(s) == [t |-> "str", v |-> s]
Dict(d) == [t |-> "dict", v |-> d]
IsStr(x) == x.t = "str"

Exc(cls, msg) == [cls |-> cls, msg |-> msg]
NoExc == Exc("", "")

\* dict.get(key) / dict.get(key, default)
Get(d, k, default) == IF k \in DOMAIN d THEN d[k] ELSE default

\* d[k] = v on a dict (adds the key or overwrites it)
SetItem(d, k, v) == [x \in (DOMAIN d) \cup {k} |-> IF x = k THEN v ELSE d[x]]

EmptyDict == [x \in {} |-> None]

\* ----------------------------------------------------------------- numbers
\* A value rounded to three decimals is held in thousandths, one rounded to
\* two decimals in hundredths.
Abs(x) == IF x < 0 THEN 0 - x ELSE x
Min(a, b) == IF a <= b THEN a ELSE b
Max(a, b) == IF a >= b THEN a ELSE b

\* round(num / den, n) for num >= 0, den > 0, in units of the last decimal
\* kept.  Python rounds the binary float, so a decimal tie can go to either
\* neighbour: tie_up says which.
RoundDiv(num, den, tie_up) ==
    LET q == num \div den
        twice == 2 * (num % den)
    IN IF twice > den \/ (twice = den /\ tie_up) THEN q + 1 ELSE q

\* ------------------------------------------------------------- file names
Exts == {".JPG", ".jpeg", ".jpg", ".png", ".txt"}

\* str.lower() on the extension
Lower(ext) == IF ext = ".JPG" THEN ".jpg" ELSE ext

Name(prefix, stem, num, ext) == [prefix |-> prefix, stem |-> stem, num |-> num, ext |-> ext]

\* f'frame{img_count}.jpg'
FrameName(img_count) == Name("", "frame", img_count, ".jpg")

\* f"annot_{fname}"
AnnotName(fname) == [fname EXCEPT !.prefix = "annot_" \o fname.prefix]

\* Position of a name in Python's string order (single-digit numbers).
ExtRank(ext) == CASE ext = ".JPG" -> 0 [] ext = ".jpeg" -> 1 [] ext = ".jpg" -> 2
                  [] ext = ".png" -> 3 [] OTHER -> 4
NameKey(n) == (IF n.prefix = "" THEN 100 ELSE 0) + n.num * 10 + ExtRank(n.ext)

RECURSIVE Sorted(_)
Sorted(S) == IF S = {} THEN <<>>
             ELSE LET m == CHOOSE x \in S : \A y \in S : NameKey(x) <= NameKey(y)
                  IN <<m>> \o Sorted(S \ {m})

EmptyFolder == [x \in {} |-> None]

\* ------------------------------------------------------------------ images
\* A bounding box as detectMultiScale yields it.
Box(x, y, w, h) == [x |-> x, y |-> y, w |-> w, h |-> h]
SmallBox == Box(1, 1, 30, 30)
LargeBox == Box(5, 2, 40, 50)
BoxLists == {<<>>, <<SmallBox>>, <<SmallBox, LargeBox>>}

\* The content of an image file: which video frame it shows, the faces the
\* Haar cascade finds in it, and the rectangles drawn on it.
Image(idx, faces) == [readable |-> TRUE, idx |-> idx, faces |-> faces, rects |-> <<>>]
\* A file cv2.imread cannot decode (it returns None).
Corrupt == [readable |-> FALSE, idx |-> -1, faces |-> <<>>, rects |-> <<>>]

\* One cap.read() result: ret flag and the frame's detectable faces.
Reads == [ret : {TRUE}, faces : BoxLists] \cup {[ret |-> FALSE, faces |-> <<>>]}
RECURSIVE SeqsUpTo(_, _)
SeqsUpTo(S, n) == IF n = 0 THEN {<<>>}
                  ELSE LET prev == SeqsUpTo(S, n - 1)
                       IN prev \cup {Append(s, e) : s \in {p \in prev : Len(p) = n - 1}, e \in S}

\* -------------------------------------------------------- extract_frames
\* extract_frames with `continue` in place of `break` on a failed read
RECURSIVE ExtractLoop_NoBreak(_, _, _, _, _)
ExtractLoop_NoBreak(video, step, frame_num, img_count, folder) ==
    IF frame_num >= Len(video)
    THEN [ok |-> TRUE, exc |-> NoExc, count |-> img_count, folder |-> folder]
    ELSE IF ~video[frame_num + 1].ret
    THEN ExtractLoop_NoBreak(video, step, frame_num + 1, img_count, folder)
    ELSE IF step = 0
    THEN [ok |-> FALSE, exc |-> Exc("ZeroDivisionError", "integer division or modulo by zero"),
          count |-> img_count, folder |-> folder]
    ELSE IF frame_num % step = 0
    THEN ExtractLoop_NoBreak(video, step, frame_num + 1, img_count + 1,
                     SetItem(folder, FrameName(img_count),
                             Image(frame_num, video[frame_num + 1].faces)))
    ELSE ExtractLoop_NoBreak(video, step, frame_num + 1, img_count, folder)

\* The while loop of extract_frames; cap.read() past the end of the stream
\* returns ret = False.
RECURSIVE ExtractLoop(_, _, _, _, _)
ExtractLoop(video, step, frame_num, img_count, folder) ==
    IF frame_num >= Len(video) \/ ~video[frame_num + 1].ret
    THEN [ok |-> TRUE, exc |-> NoExc, count |-> img_count, folder |-> folder]
    ELSE IF step = 0
    THEN [ok |-> FALSE, exc |-> Exc("ZeroDivisionError", "integer division or modulo by zero"),
          count |-> img_count, folder |-> folder]
    ELSE IF frame_num % step = 0
    THEN ExtractLoop(video, step, frame_num + 1, img_count + 1,
                     SetItem(folder, FrameName(img_count),
                             Image(frame_num, video[frame_num + 1].faces)))
    ELSE ExtractLoop(video, step, frame_num + 1, img_count, folder)

ExtractFrames(cv2_available, video, step, folder) ==
    IF ~cv2_available
    THEN [ok |-> FALSE,
          exc |-> Exc("ImportError", "OpenCV (cv2) is required for video processing"),
          count |-> 0, folder |-> folder]
    ELSE ExtractLoop(video, step, 0, 0, folder)

\* --------------------------------------------------------- analyze_frames
\* analyze_frames with the extension filter of analyze_video_frames
ListFrames_WithJpeg(folder) ==
    Sorted({f \in DOMAIN folder : Lower(f.ext) \in {".jpg", ".png", ".jpeg"}})

\* frames = sorted([f for f in os.listdir(frames_folder)
\*                  if f.lower().endswith(('.jpg', '.png'))])
ListFrames(folder) == Sorted({f \in DOMAIN folder : Lower(f.ext) \in {".jpg", ".png"}})

\* The for loop of analyze_frames over frames[i..]; acc carries the results
\* dict and the annotated folder.
RECURSIVE AnalyzeLoop(_, _, _, _)
AnalyzeLoop(folder, frames, i, acc) ==
    IF i > Len(frames) THEN acc
    ELSE LET fname == frames[i]
             img == folder[fname]
         IN IF ~img.readable
            THEN AnalyzeLoop(folder, frames, i + 1, acc)
            ELSE AnalyzeLoop(folder, frames, i + 1,
                     [results |-> SetItem(acc.results, fname, img.faces),
                      annotated |-> SetItem(acc.annotated, AnnotName(fname),
                                            [img EXCEPT !.rects = img.faces])])

AnalyzeFrames(cv2_available, folder, annotated) ==
    IF ~cv2_available
    THEN [ok |-> FALSE,
          exc |-> Exc("ImportError", "OpenCV (cv2) is required for face detection"),
          results |-> EmptyDict, annotated |-> annotated]
    ELSE LET r == AnalyzeLoop(folder, ListFrames(folder), 1,
                              [results |-> EmptyDict, annotated |-> annotated])
         IN [ok |-> TRUE, exc |-> NoExc, results |-> r.results, annotated |-> r.annotated]

\* A face region handed to the expression analysis: None, an array without
\* pixels (cv2.cvtColor raises on it), or an array with the mean brightness
\* of its eye region and of its left and right halves, in thousandths of 255.
NoFace == [kind |-> "None"]
EmptyRegion == [kind |-> "empty"]
FaceRegion(eye, left, right) == [kind |-> "array", eye |-> eye, left |-> left, right |-> right]

CvtColorError == Exc("cv2.error", "(-215:Assertion failed) !_src.empty() in function 'cvtColor'")

DefaultScores ==
    [confidence |-> 500, authenticity |-> 500, leadership |-> 500, pressure_handling |-> 500]

\* analyze_expression_rule_based(face_image), scores in thousandths;
\* head_straight is 1.0 for every image (center_offset is always 0)
AnalyzeExpressionRuleBased(face_image) ==
    IF face_image.kind = "None"
    THEN [ok |-> TRUE, exc |-> NoExc, value |-> DefaultScores, by |-> "rule_based"]
    ELSE IF face_image.kind = "empty"
    THEN [ok |-> FALSE, exc |-> CvtColorError, value |-> None, by |-> "rule_based"]
    ELSE LET eye_brightness == face_image.eye
             symmetry == 1000 - Abs(face_image.left - face_image.right)
             head_straight == 1000
         IN [ok |-> TRUE, exc |-> NoExc,
             value |->
               [confidence |-> Min(700, (5 * eye_brightness + 5 * head_straight) \div 10),
                authenticity |-> Min(750, (6 * symmetry + 4 * head_straight) \div 10),
                leadership |-> Min(650, (4 * eye_brightness + 6 * head_straight) \div 10),
                pressure_handling |->
                    Min(700, (5 * symmetry + 3 * eye_brightness + 2 * head_straight) \div 10)],
             by |-> "rule_based"]

\* What the constructor leaves in DL_AVAILABLE, self.model, self.transform:
\* without torch both are None; with torch the model is None when its
\* initialisation failed.
AnalyzerConfigs ==
    {[dl_available |-> FALSE, has_model |-> FALSE, has_transform |-> FALSE],
     [dl_available |-> TRUE, has_model |-> FALSE, has_transform |-> TRUE],
     [dl_available |-> TRUE, has_model |-> TRUE, has_transform |-> TRUE]}

\* What self.model(input_tensor) does: raise, or give four sigmoid outputs
Predictions ==
    {[raises |-> TRUE, scores |-> <<0, 0, 0, 0>>],
     [raises |-> FALSE, scores |-> <<250, 250, 250, 250>>],
     [raises |-> FALSE, scores |-> <<900, 100, 1000, 0>>]}

\* analyze_expression_ml whose except clause re-raises
AnalyzeExpressionMl_NoFallback(face_image, config, prediction) ==
    IF ~config.dl_available \/ ~config.has_model \/ ~config.has_transform
    THEN AnalyzeExpressionRuleBased(face_image)
    ELSE IF face_image.kind # "array"
    THEN [ok |-> FALSE, exc |-> CvtColorError, value |-> None, by |-> "model"]
    ELSE IF prediction.raises
    THEN [ok |-> FALSE, exc |-> Exc("RuntimeError", "prediction failed"), value |-> None,
          by |-> "model"]
    ELSE [ok |-> TRUE, exc |-> NoExc,
          value |-> [confidence |-> prediction.scores[1],
                     authenticity |-> prediction.scores[2],
                     leadership |-> prediction.scores[3],
                     pressure_handling |-> prediction.scores[4]],
          by |-> "model"]

\* analyze_expression_ml(face_image); by: which analysis gave the result.
\* cv2.cvtColor inside the try raises on None and on an empty array.
AnalyzeExpressionMl(face_image, config, prediction) ==
    IF ~config.dl_available \/ ~config.has_model \/ ~config.has_transform
    THEN AnalyzeExpressionRuleBased(face_image)
    ELSE IF face_image.kind # "array" \/ prediction.raises
    THEN AnalyzeExpressionRuleBased(face_image)
    ELSE [ok |-> TRUE, exc |-> NoExc,
          value |-> [confidence |-> prediction.scores[1],
                     authenticity |-> prediction.scores[2],
                     leadership |-> prediction.scores[3],
                     pressure_handling |-> prediction.scores[4]],
          by |-> "model"]

\* --------------------------------------- facial_expression_analyzer.py
\* Scores of one face, in thousandths (analyze_expression_ml on the region).
ExpressionScores(box) ==
    [confidence |-> 10 * box.w, authenticity |-> 10 * box.h,
     leadership |-> 5 * (box.w + box.h), pressure_handling |-> 500]

\* max(faces, key=lambda f: f[2] * f[3]): the first face of maximal area.
LargestFace(faces) ==
    LET best == CHOOSE i \in 1..Len(faces) :
                    /\ \A j \in 1..Len(faces) : faces[j].w * faces[j].h <= faces[i].w * faces[i].h
                    /\ \A j \in 1..(i - 1) : faces[j].w * faces[j].h < faces[i].w * faces[i].h
    IN faces[best]

\* os.listdir filter of analyze_video_frames
ListFrameFiles(folder) ==
    Sorted({f \in DOMAIN folder : Lower(f.ext) \in {".jpg", ".png", ".jpeg"}})

\* The for loop of analyze_video_frames.  empty_is_tuple: detectMultiScale
\* returns an empty tuple when nothing is detected, on which .tolist() of
\* detect_faces raises AttributeError; otherwise it returns an empty array.
RECURSIVE VideoFramesLoop(_, _, _, _, _)
VideoFramesLoop(folder, files, i, analyses, empty_is_tuple) ==
    IF i > Len(files) THEN [ok |-> TRUE, exc |-> NoExc, analyses |-> analyses]
    ELSE LET img == folder[files[i]]
         IN IF ~img.readable
            THEN VideoFramesLoop(folder, files, i + 1, analyses, empty_is_tuple)
            ELSE IF img.faces = <<>>
            THEN IF empty_is_tuple
                 THEN [ok |-> FALSE,
                       exc |-> Exc("AttributeError", "'tuple' object has no attribute 'tolist'"),
                       analyses |-> analyses]
                 ELSE VideoFramesLoop(folder, files, i + 1, analyses, empty_is_tuple)
            ELSE LET largest_face == LargestFace(img.faces)
                 IN VideoFramesLoop(folder, files, i + 1,
                        Append(analyses, [frame |-> files[i], face_bbox |-> largest_face,
                                          scores |-> ExpressionScores(largest_face)]),
                        empty_is_tuple)

RECURSIVE SumOf(_, _)
SumOf(analyses, key) ==
    IF analyses = <<>> THEN 0
    ELSE analyses[1].scores[key] + SumOf(Tail(analyses), key)

ScoreKeys == {"confidence", "authenticity", "leadership", "pressure_handling"}

\* analyze_video_frames: a returned value or a raised exception.  Scores are
\* whole thousandths; a mean is rounded to three decimals.
AnalyzeVideoFrames(folder, empty_is_tuple, tie_up) ==
    LET frame_files == ListFrameFiles(folder)
        loop == VideoFramesLoop(folder, frame_files, 1, <<>>, empty_is_tuple)
    IN IF frame_files = <<>>
       THEN [ok |-> TRUE, exc |-> NoExc,
             value |-> Dict([error |-> "No frames found", scores |-> EmptyDict])]
       ELSE IF ~loop.ok THEN [ok |-> FALSE, exc |-> loop.exc, value |-> None]
       ELSE IF loop.analyses = <<>>
       THEN [ok |-> TRUE, exc |-> NoExc,
             value |-> Dict([error |-> "No faces detected in frames", scores |-> EmptyDict])]
       ELSE [ok |-> TRUE, exc |-> NoExc,
             value |-> Dict([scores |-> [k \in ScoreKeys |->
                                           RoundDiv(SumOf(loop.analyses, k),
                                                    Len(loop.analyses), tie_up)],
                             overall_score |->
                                 RoundDiv(SumOf(loop.analyses, "confidence")
                                            + SumOf(loop.analyses, "authenticity")
                                            + SumOf(loop.analyses, "leadership")
                                            + SumOf(loop.analyses, "pressure_handling"),
                                          4 * Len(loop.analyses), tie_up),
                             frame_count |-> Len(loop.analyses),
                             frames_analyzed |-> Len(frame_files),
                             frame_analyses |-> loop.analyses])]

\* FacialExpressionAnalyzer() followed by analyze_video_frames(frames_out).
FacialCall(folder, numpy_available, empty_is_tuple, tie_up) ==
    IF ~numpy_available
    THEN [ok |-> FALSE,
          exc |-> Exc("ImportError", "NumPy is required for facial expression analysis"),
          value |-> None]
    ELSE AnalyzeVideoFrames(folder, empty_is_tuple, tie_up)

\* -------------------------------------------------- audio_transcriber.py
TransChoices == {"ffmpeg_fails", "whisper_fails", "speech", "silence"}

\* AudioTranscriber(model_size="base").transcribe(video_path)
Transcribe(choice) ==
    CASE choice = "ffmpeg_fails" ->
           [ok |-> FALSE, exc |-> Exc("Exception", "Failed to extract audio"), value |-> None]
      [] choice = "whisper_fails" ->
           [ok |-> FALSE, exc |-> Exc("Exception", "Transcription failed"), value |-> None]
      [] choice = "speech" ->
           [ok |-> TRUE, exc |-> NoExc,
            value |-> Dict([text |-> "I am confident", language |-> "en"])]
      [] OTHER ->
           [ok |-> TRUE, exc |-> NoExc, value |-> Dict([text |-> "", language |-> "en"])]

\* ------------------------------------------------------- text_analyzer.py
\* What TextBlob and VADER return is held in ten-thousandths.
\* round(x, 3) of a value held in ten-thousandths
Round3(x, tie_up) == IF x < 0 THEN 0 - RoundDiv(0 - x, 10, tie_up) ELSE RoundDiv(x, 10, tie_up)

\* A text: the str (or None) with what split(), re.split and the keyword
\* lists find in it, and what the two sentiment libraries say about it.
\*   chars = 0: ""        words = 0 < chars: only whitespace
Polarities == {-10000, -5000, 0, 15, 1001, 5000}
Subjectivities == {0, 3335, 10000}
Compounds == {-5000, -500, 0, 499, 4927, 5000}
Positives == {0, 10000}
Sentiments == [polarity : Polarities, subjectivity : Subjectivities,
               compound : Compounds, pos : Positives]
MildSentiment == [polarity |-> 5000, subjectivity |-> 3335, compound |-> 499, pos |-> 10000]

NoKeywords == [confidence |-> 0, enthusiasm |-> 0, professional |-> 0]
Shape(chars, words, unique, sentences, sentence_words) ==
    [chars |-> chars, words |-> words, unique |-> unique,
     sentences |-> sentences, sentence_words |-> sentence_words]
EmptyShape == Shape(0, 0, 0, 0, 0)
BlankShape == Shape(3, 0, 0, 0, 0)

Text(kind, shape, padded, keywords, sentiment, lib_raises) ==
    [kind |-> kind, shape |-> shape, padded |-> padded, keywords |-> keywords,
     sentiment |-> sentiment, lib_raises |-> lib_raises]
NoneText == Text("None", EmptyShape, FALSE, NoKeywords, MildSentiment, FALSE)
EmptyText == Text("str", EmptyShape, FALSE, NoKeywords, MildSentiment, FALSE)
BlankText == Text("str", BlankShape, TRUE, NoKeywords, MildSentiment, FALSE)

\* `not text or not text.strip()`
IsBlank(text) == text.kind = "None" \/ text.shape.chars = 0 \/ text.shape.words = 0

\* clean_text: re.sub(r'\s+', ' ', text.strip())
CleanText(text) == IF text.kind = "None" \/ text.shape.chars = 0 THEN EmptyText
                   ELSE [text EXCEPT !.padded = FALSE]

Label(value, positive_from, negative_from) ==
    IF value >= positive_from THEN "positive"
    ELSE IF value <= negative_from THEN "negative"
    ELSE "neutral"

\* analyze_with_textblob: polarity > 0.1 positive, < -0.1 negative
AnalyzeWithTextblob(text, tie_up) ==
    [polarity |-> Round3(text.sentiment.polarity, tie_up),
     subjectivity |-> Round3(text.sentiment.subjectivity, tie_up),
     label |-> Label(text.sentiment.polarity, 1001, -1001),
     confidence |-> Round3(Abs(text.sentiment.polarity), tie_up)]

\* analyze_with_vader: compound >= 0.05 positive, <= -0.05 negative
AnalyzeWithVader(text, tie_up) ==
    [compound |-> Round3(text.sentiment.compound, tie_up),
     positive |-> Round3(text.sentiment.pos, tie_up),
     label |-> Label(text.sentiment.compound, 500, -500),
     confidence |-> Round3(Abs(text.sentiment.compound), tie_up)]

\* TextBlob's label wins a tie of the confidences (>= for >)
OverallSentiment_TextblobOnTie(textblob_result, vader_result, tie_up) ==
    [label |-> IF textblob_result.label = vader_result.label THEN textblob_result.label
               ELSE IF textblob_result.confidence >= vader_result.confidence
                    THEN textblob_result.label
                    ELSE vader_result.label,
     confidence |-> RoundDiv(textblob_result.confidence + vader_result.confidence, 2, tie_up)]

\* the overall label and confidence of TextAnalyzer.analyze (lines 110-127)
OverallSentiment(textblob_result, vader_result, tie_up) ==
    [label |-> IF textblob_result.label = vader_result.label THEN textblob_result.label
               ELSE IF textblob_result.confidence > vader_result.confidence
                    THEN textblob_result.label
                    ELSE vader_result.label,
     confidence |-> RoundDiv(textblob_result.confidence + vader_result.confidence, 2, tie_up)]

EmptyTextError == [error |-> "Empty text provided", text |-> EmptyText]

\* TextAnalyzer.analyze(text): a returned dict or the library's exception
Analyze(text, tie_up) ==
    IF IsBlank(text)
    THEN [ok |-> TRUE, exc |-> NoExc, value |-> EmptyTextError]
    ELSE IF text.lib_raises
    THEN [ok |-> FALSE, exc |-> Exc("LookupError", "Resource punkt not found"), value |-> None]
    ELSE LET cleaned_text == CleanText(text)
             textblob_result == AnalyzeWithTextblob(cleaned_text, tie_up)
             vader_result == AnalyzeWithVader(cleaned_text, tie_up)
         IN [ok |-> TRUE, exc |-> NoExc,
             value |-> [text |-> cleaned_text,
                        word_count |-> cleaned_text.shape.words,
                        overall_sentiment |->
                            OverallSentiment(textblob_result, vader_result, tie_up),
                        textblob |-> textblob_result,
                        vader |-> vader_result]]

\* analyze_batch that leaves the empty texts out of the list
RECURSIVE AnalyzeBatchLoop_SkipsEmpty(_, _, _, _)
AnalyzeBatchLoop_SkipsEmpty(texts, i, acc, tie_up) ==
    IF i > Len(texts) THEN [ok |-> TRUE, exc |-> NoExc, value |-> acc]
    ELSE IF IsBlank(texts[i]) THEN AnalyzeBatchLoop_SkipsEmpty(texts, i + 1, acc, tie_up)
    ELSE LET out == Analyze(texts[i], tie_up)
         IN IF ~out.ok THEN [ok |-> FALSE, exc |-> out.exc, value |-> <<>>]
            ELSE AnalyzeBatchLoop_SkipsEmpty(texts, i + 1, Append(acc, out.value), tie_up)

\* [self.analyze(text) for text in texts], text by text; an exception of
\* analyze ends the comprehension
RECURSIVE AnalyzeBatchLoop(_, _, _, _)
AnalyzeBatchLoop(texts, i, acc, tie_up) ==
    IF i > Len(texts) THEN [ok |-> TRUE, exc |-> NoExc, value |-> acc]
    ELSE LET out == Analyze(texts[i], tie_up)
         IN IF ~out.ok THEN [ok |-> FALSE, exc |-> out.exc, value |-> <<>>]
            ELSE AnalyzeBatchLoop(texts, i + 1, Append(acc, out.value), tie_up)

\* TextAnalyzer.analyze_batch(texts)
AnalyzeBatch(texts, tie_up) == AnalyzeBatchLoop(texts, 1, <<>>, tie_up)

\* ----------------------------------------- app.py, the sentiment endpoints
Unavailable503 ==
    [status |-> 503,
     body |-> [error |-> "Text analyzer not available. Install dependencies: pip install textblob vaderSentiment nltk"],
     analyzer_calls |-> 0]

\* analyze_sentiment without the availability test: analyzer is None and the
\* call on it raises AttributeError inside the try
AnalyzeSentiment_NoGuard(available, text, tie_up) ==
    LET out == Analyze(text, tie_up)
    IN IF ~available
       THEN [status |-> 500,
             body |-> [error |-> "'NoneType' object has no attribute 'analyze'", text |-> text],
             analyzer_calls |-> 0]
       ELSE IF out.ok THEN [status |-> 200, body |-> out.value, analyzer_calls |-> 1]
       ELSE [status |-> 500, body |-> [error |-> out.exc.msg, text |-> text],
             analyzer_calls |-> 1]

\* POST /api/analyze-sentiment/  (available: TEXT_ANALYZER_AVAILABLE, which
\* is set together with the module-level analyzer)
AnalyzeSentiment(available, text, tie_up) ==
    LET out == Analyze(text, tie_up)
    IN IF ~available THEN Unavailable503
       ELSE IF out.ok THEN [status |-> 200, body |-> out.value, analyzer_calls |-> 1]
       ELSE [status |-> 500, body |-> [error |-> out.exc.msg, text |-> text],
             analyzer_calls |-> 1]

\* POST /api/analyze-sentiment-batch/
AnalyzeSentimentBatch(available, texts, tie_up) ==
    LET out == AnalyzeBatch(texts, tie_up)
    IN IF ~available THEN Unavailable503
       ELSE IF out.ok
       THEN [status |-> 200, body |-> [results |-> out.value, count |-> Len(out.value)],
             analyzer_calls |-> 1]
       ELSE [status |-> 500, body |-> [error |-> out.exc.msg], analyzer_calls |-> 1]

\* ------------------------------------------------ candidate_evaluator.py
\* Scores are in hundredths, the sentiment values of analyze in thousandths.
\* min(count / 5.0, 1.0) in fifths
KeywordScore(count) == Min(count, 5)

\* calculate_communication_clarity: 0.5 without a sentence; else
\* 0.3 * length_score + 0.4 * vocab_diversity + 0.3 * (1 - subjectivity),
\* length_score = max(0, min(1, 1 - |avg - 17.5| / 17.5)), avg = words of the
\* sentences / sentences
CalculateCommunicationClarity(text, sentiment_result, tie_up) ==
    IF text.shape.sentences = 0 THEN 50
    ELSE LET s == text.shape.sentences
             length_den == 35 * s
             length_num == Min(length_den,
                               Max(0, length_den - Abs(2 * text.shape.sentence_words - length_den)))
             w == text.shape.words
             vocab_num == IF w = 0 THEN 0 ELSE text.shape.unique
             vocab_den == IF w = 0 THEN 1 ELSE w
             den == length_den * vocab_den * 100
         IN RoundDiv(30 * length_num * vocab_den * 100
                       + 40 * vocab_num * length_den * 100
                       + 3 * (1000 - sentiment_result.textblob.subjectivity)
                           * length_den * vocab_den,
                     den, tie_up)

\* calculate_confidence: 0.3 * keywords + 0.35 * (polarity + 1) / 2
\*                       + 0.35 * (compound + 1) / 2
CalculateConfidence(text, sentiment_result, tie_up) ==
    RoundDiv(6 * KeywordScore(text.keywords.confidence) * 2000
               + 35 * (sentiment_result.textblob.polarity + 1000)
               + 35 * (sentiment_result.vader.compound + 1000),
             2000, tie_up)

\* calculate_enthusiasm with the polarity itself in place of max(0, polarity)
CalculateEnthusiasm_AnyPolarity(text, sentiment_result, tie_up) ==
    LET num == 6 * KeywordScore(text.keywords.enthusiasm) * 1000
                 + 40 * sentiment_result.textblob.polarity
                 + 30 * sentiment_result.vader.positive
    IN IF num < 0 THEN 0 - RoundDiv(0 - num, 1000, tie_up) ELSE RoundDiv(num, 1000, tie_up)

\* calculate_enthusiasm: 0.3 * keywords + 0.4 * max(0, polarity) + 0.3 * positive
CalculateEnthusiasm(text, sentiment_result, tie_up) ==
    RoundDiv(6 * KeywordScore(text.keywords.enthusiasm) * 1000
               + 40 * Max(0, sentiment_result.textblob.polarity)
               + 30 * sentiment_result.vader.positive,
             1000, tie_up)

\* calculate_professionalism: 0.4 * keywords + 0.4 * (1 - subjectivity)
\*                            + 0.2 * (1 - min(|polarity|, 0.5) * 2)
CalculateProfessionalism(text, sentiment_result, tie_up) ==
    RoundDiv(8 * KeywordScore(text.keywords.professional) * 1000
               + 40 * (1000 - sentiment_result.textblob.subjectivity)
               + 20 * (1000 - 2 * Min(Abs(sentiment_result.textblob.polarity), 500)),
             1000, tie_up)

\* calculate_engagement: 0.3 * min(words / 200, 1) + 0.4 * overall confidence
\*                       + 0.3 * vocab_diversity
CalculateEngagement(text, sentiment_result, tie_up) ==
    LET w == text.shape.words
        vocab_num == IF w = 0 THEN 0 ELSE text.shape.unique
        vocab_den == IF w = 0 THEN 1 ELSE w
    IN RoundDiv(30 * Min(w, 200) * vocab_den
                  + 8 * sentiment_result.overall_sentiment.confidence * vocab_den
                  + 30 * vocab_num * 200,
                200 * vocab_den, tie_up)

NoCalls == [analyze |-> 0, calculate |-> 0]

NoTextError == [error |-> "No text provided for evaluation", scores |-> EmptyDict]

NoAnalyzerError ==
    [error |-> "Text analyzer not available. Install dependencies: pip install textblob vaderSentiment nltk",
     scores |-> EmptyDict]

\* the scores dict of evaluate and what evaluate returns around it
Evaluation(text, sentiment_result, tie_up) ==
    LET scores == [communication_clarity |->
                       CalculateCommunicationClarity(text, sentiment_result, tie_up),
                   confidence |-> CalculateConfidence(text, sentiment_result, tie_up),
                   enthusiasm |-> CalculateEnthusiasm(text, sentiment_result, tie_up),
                   professionalism |-> CalculateProfessionalism(text, sentiment_result, tie_up),
                   engagement |-> CalculateEngagement(text, sentiment_result, tie_up)]
    IN [transcribed_text |-> text,
        text_length |-> text.shape.chars,
        word_count |-> text.shape.words,
        scores |-> scores,
        overall_score |-> RoundDiv(scores.communication_clarity + scores.confidence
                                     + scores.enthusiasm + scores.professionalism
                                     + scores.engagement, 5, tie_up),
        overall_sentiment |-> sentiment_result.overall_sentiment,
        sentiment_details |-> [textblob |-> sentiment_result.textblob,
                               vader |-> sentiment_result.vader]]

\* evaluate whose first test is `not transcribed_text` alone, without strip()
CandidateEvaluate_NoStrip(text, analyzer_available, tie_up) ==
    LET sentiment == Analyze(text, tie_up)
    IN IF text.kind = "None" \/ text.shape.chars = 0
       THEN [ok |-> TRUE, exc |-> NoExc, value |-> NoTextError, calls |-> NoCalls]
       ELSE IF ~analyzer_available
       THEN [ok |-> TRUE, exc |-> NoExc, value |-> NoAnalyzerError, calls |-> NoCalls]
       ELSE IF ~sentiment.ok
       THEN [ok |-> FALSE, exc |-> sentiment.exc, value |-> None,
             calls |-> [analyze |-> 1, calculate |-> 0]]
       ELSE IF "error" \in DOMAIN sentiment.value
       THEN [ok |-> TRUE, exc |-> NoExc, value |-> sentiment.value,
             calls |-> [analyze |-> 1, calculate |-> 0]]
       ELSE [ok |-> TRUE, exc |-> NoExc,
             value |-> Evaluation(text, sentiment.value, tie_up),
             calls |-> [analyze |-> 1, calculate |-> 5]]

\* CandidateEvaluator.evaluate(transcribed_text); analyzer_available:
\* self.text_analyzer is not None; calls: how often analyze and the
\* calculate_* methods were called
CandidateEvaluate(text, analyzer_available, tie_up) ==
    LET sentiment == Analyze(text, tie_up)
    IN IF IsBlank(text)
       THEN [ok |-> TRUE, exc |-> NoExc, value |-> NoTextError, calls |-> NoCalls]
       ELSE IF ~analyzer_available
       THEN [ok |-> TRUE, exc |-> NoExc, value |-> NoAnalyzerError, calls |-> NoCalls]
       ELSE IF ~sentiment.ok
       THEN [ok |-> FALSE, exc |-> sentiment.exc, value |-> None,
             calls |-> [analyze |-> 1, calculate |-> 0]]
       ELSE IF "error" \in DOMAIN sentiment.value
       THEN [ok |-> TRUE, exc |-> NoExc, value |-> sentiment.value,
             calls |-> [analyze |-> 1, calculate |-> 0]]
       ELSE [ok |-> TRUE, exc |-> NoExc,
             value |-> Evaluation(text, sentiment.value, tie_up),
             calls |-> [analyze |-> 1, calculate |-> 5]]

EvalChoices == {"scores", "no_analyzer", "analyzer_raises"}

\* the transcriptions of Transcribe as texts: "" and "I am confident"
TextOf(transcribed_text, lib_raises) ==
    IF transcribed_text = "" THEN EmptyText
    ELSE Text("str", Shape(14, 3, 3, 1, 3), FALSE,
              [confidence |-> 1, enthusiasm |-> 0, professional |-> 0],
              MildSentiment, lib_raises)

\* CandidateEvaluator().evaluate(transcribed_text) as process_video calls it
Evaluate(transcribed_text, choice) ==
    LET out == CandidateEvaluate(TextOf(transcribed_text, choice = "analyzer_raises"),
                                 choice # "no_analyzer", TRUE)
    IN IF ~out.ok THEN [ok |-> FALSE, exc |-> out.exc, value |-> None]
       ELSE IF "error" \in DOMAIN out.value
       THEN [ok |-> TRUE, exc |-> NoExc, value |-> Dict(out.value)]
       ELSE [ok |-> TRUE, exc |-> NoExc,
             value |-> Dict([transcribed_text |-> transcribed_text,
                             scores |-> out.value.scores,
                             overall_score |-> out.value.overall_score])]

\* ------------------------------------------- process_video, stage by stage
\* results = {"frame_analysis": frame_results, "transcription": None, ...}
InitResults(frame_results) ==
    [frame_analysis |-> Dict(frame_results), transcription |-> None,
     evaluation |-> None, facial_expression_analysis |-> None]

\* the except branch forgets results["facial_analysis_error"] = str(e)
FacialStage_DropsError(results, available, out) ==
    IF ~available THEN results
    ELSE IF out.ok THEN SetItem(results, "facial_expression_analysis", out.value)
    ELSE SetItem(results, "facial_expression_analysis", None)

\* the except branch stores the message under the transcription key
FacialStage_WrongKey(results, available, out) ==
    IF ~available THEN results
    ELSE IF out.ok THEN SetItem(results, "facial_expression_analysis", out.value)
    ELSE SetItem(SetItem(results, "transcription_error", Str(out.exc.msg)),
                 "facial_expression_analysis", None)

\* if FACIAL_ANALYSIS_AVAILABLE: try ... except Exception as e ...
FacialStage(results, available, out) ==
    IF ~available THEN results
    ELSE IF out.ok THEN SetItem(results, "facial_expression_analysis", out.value)
    ELSE SetItem(SetItem(results, "facial_analysis_error", Str(out.exc.msg)),
                 "facial_expression_analysis", None)

TransErrors(results, msg_t, msg_e) ==
    SetItem(SetItem(results, "transcription_error", Str(msg_t)), "evaluation_error", Str(msg_e))

\* if transcribe_audio: ... up to results["transcription"] = transcription
TranscriptionStage(results, transcribe_audio, available, out) ==
    IF ~transcribe_audio THEN results
    ELSE IF ~available
    THEN TransErrors(results, "Transcription dependencies not installed",
                     "Evaluation requires transcription")
    ELSE IF out.ok THEN SetItem(results, "transcription", out.value)
    ELSE TransErrors(results, out.exc.msg, out.exc.msg)

\* the text is looked up under a key the transcription does not have
EvaluationDue_WrongKey(transcribe_audio, available, out) ==
    transcribe_audio /\ available /\ out.ok /\ Get(out.value.v, "txt", "") # ""

\* if transcription.get("text"): the evaluator is called next
EvaluationDue(transcribe_audio, available, out) ==
    transcribe_audio /\ available /\ out.ok /\ Get(out.value.v, "text", "") # ""

\* the except branch sets evaluation_error only
EvaluationStage_OnlyEvalError(results, out) ==
    IF out.ok THEN SetItem(results, "evaluation", out.value)
    ELSE SetItem(results, "evaluation_error", Str(out.exc.msg))

\* results["evaluation"] = evaluation, or the except branch
EvaluationStage(results, out) ==
    IF out.ok THEN SetItem(results, "evaluation", out.value)
    ELSE TransErrors(results, out.exc.msg, out.exc.msg)

\* json.dump(results, f, indent=2) and its inverse json.load
JsonValue(v) == CASE v.t = "None" -> [j |-> "null"]
                  [] v.t = "str" -> [j |-> "string", v |-> v.v]
                  [] OTHER -> [j |-> "object", v |-> v.v]
\* a dump that leaves out the keys whose value is None
JsonDump_SkipsNone(results) ==
    [k \in {x \in DOMAIN results : results[x] # None} |-> JsonValue(results[k])]
JsonDump(results) == [k \in DOMAIN results |-> JsonValue(results[k])]
PyValue(j) == CASE j.j = "null" -> None
                [] j.j = "string" -> Str(j.v)
                [] OTHER -> Dict(j.v)
JsonLoad(text) == [k \in DOMAIN text |-> PyValue(text[k])]

\* os.path.join(work_dir, "results.json"), work_dir = uploads/<uid>
ResultsPath(r) == [uid |-> r, file |-> "results.json"]

\* ------------------------------------------------------- app.upload_video
IsImportError(cls) == cls \in {"ImportError", "ModuleNotFoundError"}
NamesImportError(msg) == msg \in {"ImportError while decoding"}

\* the two except branches of upload_video
ErrorResponse(exc) ==
    IF IsImportError(exc.cls)
    THEN [status |-> 500,
          body |-> [error |-> Str(exc.msg), error_type |-> Str("ImportError"),
                    message |-> Str("Missing required dependency: " \o exc.msg)]]
    ELSE [status |-> 500,
          body |-> [error |-> Str(exc.msg), error_type |-> Str(exc.cls),
                    message |-> Str("Video processing failed. Check server logs for details."),
                    traceback |-> IF NamesImportError(exc.msg) THEN Str("traceback") ELSE None]]

\* the response carries the whole results dict under "results"
OkResponse_WholeResults(r, results, annotated) ==
    LET frame_analysis == Get(results, "frame_analysis", Dict(EmptyDict))
    IN [status |-> 200,
        body |-> [results_file |-> [url |-> ResultsPath(r)],
                  results |-> Dict(results),
                  frame_analysis |-> frame_analysis,
                  transcription |-> Get(results, "transcription", None),
                  evaluation |-> Get(results, "evaluation", None),
                  facial_expression_analysis |-> Get(results, "facial_expression_analysis", None),
                  annotated_frames |-> Sorted(DOMAIN annotated),
                  uploaded_file |-> [url |-> [uid |-> r, file |-> "upload"]]]]

\* the JSONResponse after a successful process_video
OkResponse(r, results, annotated) ==
    LET frame_analysis == Get(results, "frame_analysis", Dict(EmptyDict))
    IN [status |-> 200,
        body |-> [results_file |-> [url |-> ResultsPath(r)],
                  results |-> frame_analysis,
                  frame_analysis |-> frame_analysis,
                  transcription |-> Get(results, "transcription", None),
                  evaluation |-> Get(results, "evaluation", None),
                  facial_expression_analysis |-> Get(results, "facial_expression_analysis", None),
                  annotated_frames |-> Sorted(DOMAIN annotated),
                  uploaded_file |-> [url |-> [uid |-> r, file |-> "upload"]]]]

\* ------------------------------------------------------------ the state
Runs == {1, 2}

VARIABLES
    env,            \* per request: the upload's inputs and the module flags
    pc,             \* per request: position in upload_video / process_video
    frames_dir,     \* work_dir/frames
    annotated_dir,  \* work_dir/annotated
    results,        \* the results dict of process_video
    results_file,   \* work_dir/results.json: content and number of writes
    pv_ret,         \* what process_video returned or raised
    response,       \* the HTTP response of upload_video
    choice,         \* the outcomes the environment gave each stage
    log,            \* the stage calls in the order they were made
    unit            \* a direct call of extract_frames / analyze_frames

vars == <<env, pc, frames_dir, annotated_dir, results, results_file, pv_ret,
          response, choice, log, unit>>

Videos(n) == SeqsUpTo(Reads, n)

Envs(n) == [video : Videos(n), step : 0..MaxStep, transcribe_audio : BOOLEAN,
            CV2_AVAILABLE : BOOLEAN, FACIAL_ANALYSIS_AVAILABLE : BOOLEAN,
            TRANSCRIPTION_AVAILABLE : BOOLEAN]

NoFile == [written |-> 0, text |-> EmptyDict]
NoReturn == [status |-> "running", exc |-> NoExc, path |-> None, results |-> EmptyDict]
NoResponse == [status |-> 0, body |-> EmptyDict]
NoChoice == [save |-> "n/a", facial |-> "n/a", trans |-> "n/a", eval |-> "n/a"]
NoUnit == [fn |-> "none"]

InitRest ==
    /\ frames_dir = [r \in Runs |-> EmptyFolder]
    /\ annotated_dir = [r \in Runs |-> EmptyFolder]
    /\ results = [r \in Runs |-> EmptyDict]
    /\ results_file = [r \in Runs |-> NoFile]
    /\ pv_ret = [r \in Runs |-> NoReturn]
    /\ response = [r \in Runs |-> NoResponse]
    /\ choice = [r \in Runs |-> NoChoice]
    /\ log = [r \in Runs |-> <<>>]

IdleEnv == [video |-> <<>>, step |-> 1, transcribe_audio |-> FALSE, CV2_AVAILABLE |-> TRUE,
            FACIAL_ANALYSIS_AVAILABLE |-> TRUE, TRANSCRIPTION_AVAILABLE |-> TRUE]

\* One upload request (run 1); run 2 is never made.
Init ==
    /\ \E e \in Envs(MaxPipelineFrames) : env = [r \in Runs |-> IF r = 1 THEN e ELSE IdleEnv]
    /\ pc = [r \in Runs |-> IF r = 1 THEN "save" ELSE "off"]
    /\ InitRest
    /\ unit = NoUnit

\* Requests are served one after the other.
Turn(r) == \A q \in Runs : q < r => pc[q] \in {"done", "off"}

\* process_video raises exc: upload_video's except branches answer.
Raise(r, exc) ==
    /\ pv_ret' = [pv_ret EXCEPT ![r] = [NoReturn EXCEPT !.status = "raised", !.exc = exc]]
    /\ response' = [response EXCEPT ![r] = ErrorResponse(exc)]
    /\ pc' = [pc EXCEPT ![r] = "done"]

\* upload_video: save the uploaded file (app.py 82-88)
SaveUpload(r) ==
    /\ pc[r] = "save" /\ Turn(r)
    /\ \E saved \in BOOLEAN :
         /\ choice' = [choice EXCEPT ![r].save = IF saved THEN "saved" ELSE "failed"]
         /\ IF saved
            THEN /\ pc' = [pc EXCEPT ![r] = "extract"]
                 /\ UNCHANGED response
            ELSE /\ response' = [response EXCEPT ![r] =
                                   ErrorResponse(Exc("OSError", "No space left on device"))]
                 /\ pc' = [pc EXCEPT ![r] = "done"]
    /\ UNCHANGED <<env, frames_dir, annotated_dir, results, results_file, pv_ret, log, unit>>

\* process_video: extract_frames(video_path, out_folder=frames_dir, step=step)
PvExtractFrames(r) ==
    /\ pc[r] = "extract" /\ Turn(r)
    /\ LET out == ExtractFrames(env[r].CV2_AVAILABLE, env[r].video, env[r].step, frames_dir[r])
       IN /\ frames_dir' = [frames_dir EXCEPT ![r] = out.folder]
          /\ log' = [log EXCEPT ![r] = Append(@, [stage |-> "extract_frames", ok |-> out.ok])]
          /\ IF out.ok
             THEN /\ pc' = [pc EXCEPT ![r] = "analyze"]
                  /\ UNCHANGED <<pv_ret, response>>
             ELSE Raise(r, out.exc)
    /\ UNCHANGED <<env, annotated_dir, results, results_file, choice, unit>>

\* process_video: analyze_frames(frames_out, ...) and the results dict
PvAnalyzeFrames(r) ==
    /\ pc[r] = "analyze" /\ Turn(r)
    /\ LET out == AnalyzeFrames(env[r].CV2_AVAILABLE, frames_dir[r], annotated_dir[r])
       IN /\ annotated_dir' = [annotated_dir EXCEPT ![r] = out.annotated]
          /\ log' = [log EXCEPT ![r] = Append(@, [stage |-> "analyze_frames", ok |-> out.ok])]
          /\ IF out.ok
             THEN /\ results' = [results EXCEPT ![r] = InitResults(out.results)]
                  /\ pc' = [pc EXCEPT ![r] = "facial"]
                  /\ UNCHANGED <<pv_ret, response>>
             ELSE /\ Raise(r, out.exc)
                  /\ UNCHANGED results
    /\ UNCHANGED <<env, frames_dir, results_file, choice, unit>>

\* the facial-expression block without its try/except
PvFacial_NoCatch(r) ==
    /\ pc[r] = "facial" /\ Turn(r)
    /\ IF env[r].FACIAL_ANALYSIS_AVAILABLE
       THEN \E numpy_available \in BOOLEAN, empty_is_tuple \in BOOLEAN, tie_up \in BOOLEAN :
              LET out == FacialCall(frames_dir[r], numpy_available, empty_is_tuple, tie_up)
              IN /\ choice' = [choice EXCEPT ![r].facial = <<numpy_available, empty_is_tuple, tie_up>>]
                 /\ log' = [log EXCEPT ![r] = Append(@, [stage |-> "facial", ok |-> out.ok])]
                 /\ IF out.ok
                    THEN /\ results' = [results EXCEPT ![r] = FacialStage(@, TRUE, out)]
                         /\ pc' = [pc EXCEPT ![r] = "transcribe"]
                         /\ UNCHANGED <<pv_ret, response>>
                    ELSE /\ Raise(r, out.exc)
                         /\ UNCHANGED results
       ELSE /\ results' = [results EXCEPT ![r] = FacialStage(@, FALSE, NoReturn)]
            /\ pc' = [pc EXCEPT ![r] = "transcribe"]
            /\ UNCHANGED <<choice, log, pv_ret, response>>
    /\ UNCHANGED <<env, frames_dir, annotated_dir, results_file, unit>>

\* process_video: the facial-expression block (video_processor.py 120-134)
PvFacial(r) ==
    /\ pc[r] = "facial" /\ Turn(r)
    /\ IF env[r].FACIAL_ANALYSIS_AVAILABLE
       THEN \E numpy_available \in BOOLEAN, empty_is_tuple \in BOOLEAN, tie_up \in BOOLEAN :
              LET out == FacialCall(frames_dir[r], numpy_available, empty_is_tuple, tie_up)
              IN /\ results' = [results EXCEPT ![r] = FacialStage(@, TRUE, out)]
                 /\ choice' = [choice EXCEPT ![r].facial = <<numpy_available, empty_is_tuple, tie_up>>]
                 /\ log' = [log EXCEPT ![r] = Append(@, [stage |-> "facial", ok |-> out.ok])]
       ELSE /\ results' = [results EXCEPT ![r] = FacialStage(@, FALSE, NoReturn)]
            /\ UNCHANGED <<choice, log>>
    /\ pc' = [pc EXCEPT ![r] = "transcribe"]
    /\ UNCHANGED <<env, frames_dir, annotated_dir, results_file, pv_ret, response, unit>>

\* process_video: the transcription part of the block (136-146, 154-160)
PvTranscribe(r) ==
    /\ pc[r] = "transcribe" /\ Turn(r)
    /\ IF env[r].transcribe_audio /\ env[r].TRANSCRIPTION_AVAILABLE
       THEN \E c \in TransChoices :
              LET out == Transcribe(c)
              IN /\ results' = [results EXCEPT ![r] = TranscriptionStage(@, TRUE, TRUE, out)]
                 /\ choice' = [choice EXCEPT ![r].trans = c]
                 /\ log' = [log EXCEPT ![r] = Append(@, [stage |-> "transcribe", ok |-> out.ok])]
                 /\ pc' = [pc EXCEPT ![r] = IF EvaluationDue(TRUE, TRUE, out)
                                            THEN "evaluate" ELSE "write"]
       ELSE /\ results' = [results EXCEPT ![r] =
                             TranscriptionStage(@, env[r].transcribe_audio,
                                                env[r].TRANSCRIPTION_AVAILABLE, NoReturn)]
            /\ pc' = [pc EXCEPT ![r] = "write"]
            /\ UNCHANGED <<choice, log>>
    /\ UNCHANGED <<env, frames_dir, annotated_dir, results_file, pv_ret, response, unit>>

\* process_video: the evaluation part of the block (148-160)
PvEvaluate(r) ==
    /\ pc[r] = "evaluate" /\ Turn(r)
    /\ \E c \in EvalChoices :
         LET out == Evaluate(results[r]["transcription"].v.text, c)
         IN /\ results' = [results EXCEPT ![r] = EvaluationStage(@, out)]
            /\ choice' = [choice EXCEPT ![r].eval = c]
            /\ log' = [log EXCEPT ![r] = Append(@, [stage |-> "evaluate", ok |-> out.ok])]
    /\ pc' = [pc EXCEPT ![r] = "write"]
    /\ UNCHANGED <<env, frames_dir, annotated_dir, results_file, pv_ret, response, unit>>

\* process_video: write results.json and return (162-167)
PvWriteResults(r) ==
    /\ pc[r] = "write" /\ Turn(r)
    /\ results_file' = [results_file EXCEPT ![r] =
                          [written |-> @.written + 1, text |-> JsonDump(results[r])]]
    /\ log' = [log EXCEPT ![r] = Append(@, [stage |-> "write", ok |-> TRUE])]
    /\ pv_ret' = [pv_ret EXCEPT ![r] = [status |-> "returned", exc |-> NoExc,
                                        path |-> ResultsPath(r), results |-> results[r]]]
    /\ pc' = [pc EXCEPT ![r] = "respond"]
    /\ UNCHANGED <<env, frames_dir, annotated_dir, results, response, choice, unit>>

\* upload_video: the JSONResponse after process_video returned (122-149)
Respond(r) ==
    /\ pc[r] = "respond" /\ Turn(r)
    /\ response' = [response EXCEPT ![r] = OkResponse(r, pv_ret[r].results, annotated_dir[r])]
    /\ pc' = [pc EXCEPT ![r] = "done"]
    /\ UNCHANGED <<env, frames_dir, annotated_dir, results, results_file, pv_ret,
                   choice, log, unit>>

Next ==
    \E r \in Runs :
        \/ SaveUpload(r)
        \/ PvExtractFrames(r)
        \/ PvAnalyzeFrames(r)
        \/ PvFacial(r)
        \/ PvTranscribe(r)
        \/ PvEvaluate(r)
        \/ PvWriteResults(r)
        \/ Respond(r)

Spec == Init /\ [][Next]_vars

\* ---------------------------------------------- two requests side by side
\* Two requests with the same upload (video, step, transcribe) on the same
\* OpenCV installation; the optional modules and the stage outcomes are free.
InitPair ==
    /\ \E e1 \in Envs(MaxPairFrames), e2 \in Envs(MaxPairFrames) :
         /\ e1.video = e2.video /\ e1.step = e2.step
         /\ e1.transcribe_audio = e2.transcribe_audio
         /\ e1.CV2_AVAILABLE = e2.CV2_AVAILABLE
         /\ env = [r \in Runs |-> IF r = 1 THEN e1 ELSE e2]
    /\ pc = [r \in Runs |-> "save"]
    /\ InitRest
    /\ unit = NoUnit

SpecPair == InitPair /\ [][Next]_vars

\* ------------------------------- direct calls of the two frame functions
\* A file left by an earlier call (it shows no frame of this video).
StaleImage(faces) == Image(9, faces)
FileContents == {Corrupt} \cup {StaleImage(b) : b \in BoxLists}
FolderNames == {Name("", "frame", n, e) : n \in 0..MaxFileNum, e \in Exts}

Folders(names, n) ==
    UNION {[D -> FileContents] : D \in {X \in SUBSET names : Cardinality(X) <= n}}

StaleFrames == {EmptyFolder} \cup
               {[x \in {FrameName(n)} |-> StaleImage(<<>>)] : n \in 0..MaxFileNum}
StaleAnnotated == {EmptyFolder} \cup
                  {[x \in {AnnotName(FrameName(n))} |-> StaleImage(<<>>)] : n \in 0..MaxFileNum}

ExtractInputs == [fn : {"none"}, target : {"extract_frames"}, cv2 : BOOLEAN,
                  video : Videos(MaxFrames), step : 0..MaxStep, folder : StaleFrames]
AnalyzeInputs == [fn : {"none"}, target : {"analyze_frames"}, cv2 : BOOLEAN,
                  folder : Folders(FolderNames, MaxFolderFiles), annotated : StaleAnnotated]

InitFrames ==
    /\ unit \in ExtractInputs \cup AnalyzeInputs
    /\ env = [r \in Runs |-> IdleEnv]
    /\ pc = [r \in Runs |-> "off"]
    /\ InitRest

\* extract_frames(video_path, out_folder, step)
CallExtractFrames ==
    /\ unit.fn = "none" /\ unit.target = "extract_frames"
    /\ unit' = [fn |-> "extract_frames", in |-> unit,
                out |-> ExtractFrames(unit.cv2, unit.video, unit.step, unit.folder)]
    /\ UNCHANGED <<env, pc, frames_dir, annotated_dir, results, results_file, pv_ret,
                   response, choice, log>>

\* analyze_frames(frames_folder, annotated_folder)
CallAnalyzeFrames ==
    /\ unit.fn = "none" /\ unit.target = "analyze_frames"
    /\ unit' = [fn |-> "analyze_frames", in |-> unit,
                out |-> AnalyzeFrames(unit.cv2, unit.folder, unit.annotated)]
    /\ UNCHANGED <<env, pc, frames_dir, annotated_dir, results, results_file, pv_ret,
                   response, choice, log>>

NextFrames == CallExtractFrames \/ CallAnalyzeFrames

SpecFrames == InitFrames /\ [][NextFrames]_vars

\* ----------------------------- the facial expression analyzer, called alone
FaceImages ==
    {NoFace, EmptyRegion}
    \cup {FaceRegion(eye, left, right) :
            eye \in {0, 400, 1000}, left \in {200, 1000}, right \in {200, 600}}

ExpressionCalls == [fn : {"none"}, target : {"analyze_expression_ml"}, face_image : FaceImages,
                    config : AnalyzerConfigs, prediction : Predictions]
VideoFramesCalls == [fn : {"none"}, target : {"analyze_video_frames"},
                     folder : Folders(FolderNames, MaxFolderFiles),
                     empty_is_tuple : BOOLEAN, tie_up : BOOLEAN]

InitFacial ==
    /\ unit \in ExpressionCalls \cup VideoFramesCalls
    /\ env = [r \in Runs |-> IdleEnv]
    /\ pc = [r \in Runs |-> "off"]
    /\ InitRest

\* FacialExpressionAnalyzer().analyze_expression_ml(face_image)
CallAnalyzeExpressionMl ==
    /\ unit.fn = "none" /\ unit.target = "analyze_expression_ml"
    /\ unit' = [fn |-> "analyze_expression_ml", in |-> unit,
                out |-> AnalyzeExpressionMl(unit.face_image, unit.config, unit.prediction)]
    /\ UNCHANGED <<env, pc, frames_dir, annotated_dir, results, results_file, pv_ret,
                   response, choice, log>>

\* FacialExpressionAnalyzer().analyze_video_frames(frames_dir)
CallAnalyzeVideoFrames ==
    /\ unit.fn = "none" /\ unit.target = "analyze_video_frames"
    /\ unit' = [fn |-> "analyze_video_frames", in |-> unit,
                out |-> AnalyzeVideoFrames(unit.folder, unit.empty_is_tuple, unit.tie_up)]
    /\ UNCHANGED <<env, pc, frames_dir, annotated_dir, results, results_file, pv_ret,
                   response, choice, log>>

NextFacial == CallAnalyzeExpressionMl \/ CallAnalyzeVideoFrames

SpecFacial == InitFacial /\ [][NextFacial]_vars

\* ------------------------------ direct calls of the text-side functions
PlainShape == Shape(14, 3, 3, 1, 3)

\* the texts handed to TextAnalyzer.analyze
AnalyzeTexts ==
    {NoneText, EmptyText, BlankText}
    \cup {Text("str", PlainShape, padded, NoKeywords, sentiment, FALSE) :
            padded \in BOOLEAN, sentiment \in Sentiments}
    \cup {Text("str", PlainShape, FALSE, NoKeywords, MildSentiment, TRUE)}

AnalyzeCalls == [fn : {"none"}, target : {"analyze"}, text : AnalyzeTexts, tie_up : BOOLEAN]

\* the texts of a batch
RaisingText == Text("str", PlainShape, FALSE, NoKeywords, MildSentiment, TRUE)
BatchTexts ==
    {NoneText, EmptyText, BlankText, RaisingText,
     Text("str", PlainShape, FALSE, NoKeywords, MildSentiment, FALSE),
     Text("str", PlainShape, TRUE, NoKeywords,
          [polarity |-> -5000, subjectivity |-> 0, compound |-> 4927, pos |-> 0], FALSE)}

BatchCalls == [fn : {"none"}, target : {"analyze_batch"},
               texts : SeqsUpTo(BatchTexts, MaxBatch), tie_up : BOOLEAN]

\* request bodies are validated: text is a str, texts a list of str
SentimentRequests ==
    [fn : {"none"}, target : {"analyze_sentiment"}, available : BOOLEAN,
     text : BatchTexts \ {NoneText}, tie_up : BOOLEAN]
SentimentBatchRequests ==
    [fn : {"none"}, target : {"analyze_sentiment_batch"}, available : BOOLEAN,
     texts : SeqsUpTo(BatchTexts \ {NoneText}, MaxBatch), tie_up : {TRUE}]

\* texts for evaluate: no sentence ("..."), one word repeated, one long
\* sentence, sentences of the preferred length, a long answer
EvaluateShapes ==
    {PlainShape, Shape(3, 1, 1, 0, 0), Shape(8, 3, 1, 1, 3), Shape(200, 40, 30, 1, 40),
     Shape(180, 35, 35, 2, 35), Shape(1200, 220, 110, 12, 220)}
EvaluateKeywords ==
    {NoKeywords, [confidence |-> 2, enthusiasm |-> 0, professional |-> 1],
     [confidence |-> 11, enthusiasm |-> 11, professional |-> 10]}
EvaluateTexts ==
    {NoneText, EmptyText, BlankText, RaisingText}
    \cup {Text("str", shape, FALSE, keywords, sentiment, FALSE) :
            shape \in EvaluateShapes, keywords \in EvaluateKeywords, sentiment \in Sentiments}
EvaluateCalls == [fn : {"none"}, target : {"evaluate"}, text : EvaluateTexts,
                  analyzer_available : BOOLEAN, tie_up : BOOLEAN]

InitText ==
    /\ unit \in AnalyzeCalls \cup BatchCalls \cup SentimentRequests
                  \cup SentimentBatchRequests \cup EvaluateCalls
    /\ env = [r \in Runs |-> IdleEnv]
    /\ pc = [r \in Runs |-> "off"]
    /\ InitRest

\* TextAnalyzer().analyze(text)
CallAnalyze ==
    /\ unit.fn = "none" /\ unit.target = "analyze"
    /\ unit' = [fn |-> "analyze", in |-> unit, out |-> Analyze(unit.text, unit.tie_up)]
    /\ UNCHANGED <<env, pc, frames_dir, annotated_dir, results, results_file, pv_ret,
                   response, choice, log>>

\* TextAnalyzer().analyze_batch(texts)
CallAnalyzeBatch ==
    /\ unit.fn = "none" /\ unit.target = "analyze_batch"
    /\ unit' = [fn |-> "analyze_batch", in |-> unit,
                out |-> AnalyzeBatch(unit.texts, unit.tie_up)]
    /\ UNCHANGED <<env, pc, frames_dir, annotated_dir, results, results_file, pv_ret,
                   response, choice, log>>

\* POST /api/analyze-sentiment/
PostAnalyzeSentiment ==
    /\ unit.fn = "none" /\ unit.target = "analyze_sentiment"
    /\ unit' = [fn |-> "analyze_sentiment", in |-> unit,
                out |-> AnalyzeSentiment(unit.available, unit.text, unit.tie_up)]
    /\ UNCHANGED <<env, pc, frames_dir, annotated_dir, results, results_file, pv_ret,
                   response, choice, log>>

\* POST /api/analyze-sentiment-batch/
PostAnalyzeSentimentBatch ==
    /\ unit.fn = "none" /\ unit.target = "analyze_sentiment_batch"
    /\ unit' = [fn |-> "analyze_sentiment_batch", in |-> unit,
                out |-> AnalyzeSentimentBatch(unit.available, unit.texts, unit.tie_up)]
    /\ UNCHANGED <<env, pc, frames_dir, annotated_dir, results, results_file, pv_ret,
                   response, choice, log>>

\* CandidateEvaluator().evaluate(transcribed_text)
CallEvaluate ==
    /\ unit.fn = "none" /\ unit.target = "evaluate"
    /\ unit' = [fn |-> "evaluate", in |-> unit,
                out |-> CandidateEvaluate(unit.text, unit.analyzer_available, unit.tie_up)]
    /\ UNCHANGED <<env, pc, frames_dir, annotated_dir, results, results_file, pv_ret,
                   response, choice, log>>

NextText ==
    \/ CallAnalyze
    \/ CallEvaluate
    \/ CallAnalyzeBatch
    \/ PostAnalyzeSentiment
    \/ PostAnalyzeSentimentBatch

SpecText == InitText /\ [][NextText]_vars

\* =================================================================== claims
\* process_video was called for request r / has come back
Entered(r) == choice[r].save = "saved"
Returned(r) == pv_ret[r].status = "returned"
Raised(r) == pv_ret[r].status = "raised"

StageOk(r, s) == \E i \in 1..Len(log[r]) : log[r][i].stage = s /\ log[r][i].ok
StageFailed(r, s) == \E i \in 1..Len(log[r]) : log[r][i].stage = s /\ ~log[r][i].ok
StageRan(r, s) == StageOk(r, s) \/ StageFailed(r, s)

HasStr(d, k) == k \in DOMAIN d /\ IsStr(d[k])

\* the frame analysis process_video computed for request r
FrameAnalysisOf(r) == Dict(AnalyzeFrames(TRUE, frames_dir[r], EmptyFolder).results)

\* C1 as stated: whatever the outcome of each stage, extract_frames and
\* analyze_frames included, a finished process_video call has written
\* results.json and returned (results_path, results).
C1_AnyStageFailureTolerated ==
    \A r \in Runs :
        (pc[r] = "done" /\ Entered(r)) =>
            (Returned(r) /\ results_file[r].written = 1)

\* C1 amended: once extract_frames and analyze_frames have returned, a
\* finished process_video call has written results.json and returned
\* (results_path, results), whatever the facial, transcription and evaluation
\* stages did; an exception of extract_frames or analyze_frames leaves
\* process_video as that exception and no results.json is written.
C1_LaterStageFailureTolerated ==
    \A r \in Runs :
        (pc[r] = "done" /\ Entered(r)) =>
            IF StageOk(r, "extract_frames") /\ StageOk(r, "analyze_frames")
            THEN /\ Returned(r)
                 /\ results_file[r].written = 1
                 /\ pv_ret[r].path = ResultsPath(r)
                 /\ pv_ret[r].results = results[r]
            ELSE /\ Raised(r)
                 /\ results_file[r].written = 0
                 /\ StageFailed(r, "extract_frames") \/ StageFailed(r, "analyze_frames")

C1_Witness ==
    \E r \in Runs :
        /\ pc[r] = "done" /\ Returned(r) /\ results_file[r].written = 1
        /\ StageFailed(r, "facial") /\ StageFailed(r, "transcribe")

\* C2: when the facial-expression call raises, process_video goes on:
\* frame_analysis is the one already computed, facial_expression_analysis is
\* null, facial_analysis_error is the exception's message, the transcription
\* block runs next, and results.json is written.
C2_FacialFailureKept ==
    \A r \in Runs :
        StageFailed(r, "facial") =>
            /\ ~Raised(r)
            /\ pc[r] \in {"transcribe", "evaluate", "write", "respond", "done"}
            /\ results[r]["frame_analysis"] = FrameAnalysisOf(r)
            /\ results[r]["facial_expression_analysis"] = None
            /\ "facial_analysis_error" \in DOMAIN results[r]
            /\ results[r]["facial_analysis_error"] =
                 Str(FacialCall(frames_dir[r], choice[r].facial[1], choice[r].facial[2], choice[r].facial[3]).exc.msg)
            /\ pc[r] \in {"respond", "done"} =>
                 /\ results_file[r].written = 1
                 /\ Returned(r)
                 /\ env[r].transcribe_audio =>
                      (StageRan(r, "transcribe") \/ HasStr(results[r], "transcription_error"))
                 /\ \A i, j \in 1..Len(log[r]) :
                      (log[r][i].stage = "facial" /\ log[r][j].stage = "transcribe") => i < j

C2_Witness ==
    \E r \in Runs :
        /\ pc[r] = "done" /\ StageFailed(r, "facial") /\ StageOk(r, "transcribe")
        /\ results_file[r].written = 1

\* C3: when the transcriber or the evaluator raises, process_video still
\* writes results.json and returns, transcription_error and evaluation_error
\* both hold that exception's message, and the step leaves frame_analysis and
\* facial_expression_analysis as they were.
C3_TranscriptionFailureKept ==
    /\ [](\A r \in Runs :
            (StageFailed(r, "transcribe") \/ StageFailed(r, "evaluate")) =>
                /\ ~Raised(r)
                /\ HasStr(results[r], "transcription_error")
                /\ HasStr(results[r], "evaluation_error")
                /\ results[r]["transcription_error"] = results[r]["evaluation_error"]
                /\ results[r]["transcription_error"] =
                     Str(IF StageFailed(r, "transcribe")
                         THEN Transcribe(choice[r].trans).exc.msg
                         ELSE Evaluate(results[r]["transcription"].v.text, choice[r].eval).exc.msg)
                /\ pc[r] \in {"write", "respond", "done"}
                /\ pc[r] \in {"respond", "done"} =>
                     (Returned(r) /\ results_file[r].written = 1
                      /\ JsonLoad(results_file[r].text) = results[r]))
    /\ [][\A r \in Runs :
            (pc[r] \in {"transcribe", "evaluate"} /\ pc'[r] # pc[r]) =>
                /\ results'[r]["frame_analysis"] = results[r]["frame_analysis"]
                /\ results'[r]["facial_expression_analysis"] =
                     results[r]["facial_expression_analysis"]
                /\ ("facial_analysis_error" \in DOMAIN results'[r])
                     = ("facial_analysis_error" \in DOMAIN results[r])]_vars

C3_Witness ==
    \E r \in Runs :
        /\ pc[r] = "done" /\ StageFailed(r, "evaluate") /\ Returned(r)
        /\ results[r]["transcription"] # None
        /\ results[r]["facial_expression_analysis"] # None

\* C4: in the results of a returned process_video call, every stage that was
\* asked for and left no output has a string under its error key:
\* facial_analysis_error, transcription_error, evaluation_error.
C4_EveryFailureHasErrorString ==
    \A r \in Runs :
        Returned(r) =>
            /\ results[r]["facial_expression_analysis"] = None
                 => HasStr(results[r], "facial_analysis_error")
            /\ (env[r].transcribe_audio /\ results[r]["transcription"] = None)
                 => HasStr(results[r], "transcription_error")
            /\ (env[r].transcribe_audio /\ results[r]["evaluation"] = None)
                 => HasStr(results[r], "evaluation_error")

\* position of the call of stage s in the log of request r (0: not called)
At(r, s) == IF StageRan(r, s)
            THEN CHOOSE i \in 1..Len(log[r]) : log[r][i].stage = s
            ELSE 0

\* the first stage must have returned before the second is called
Before(r, first, second) ==
    StageRan(r, second) => (StageOk(r, first) /\ At(r, first) < At(r, second))

\* C5: the stages run in dependency order: extract_frames returns before
\* analyze_frames is called, analyze_frames before the facial-expression
\* analysis, the transcriber before the evaluator (which is never called
\* unless the transcriber returned), and results.json is written last, after
\* every enabled stage has returned or raised.
C5_DependencyOrder ==
    \A r \in Runs :
        /\ \A i, j \in 1..Len(log[r]) : log[r][i].stage = log[r][j].stage => i = j
        /\ Before(r, "extract_frames", "analyze_frames")
        /\ Before(r, "analyze_frames", "facial")
        /\ Before(r, "transcribe", "evaluate")
        /\ StageRan(r, "evaluate") => results[r]["transcription"] # None
        /\ StageRan(r, "write") =>
             /\ At(r, "write") = Len(log[r])
             /\ StageOk(r, "extract_frames") /\ StageOk(r, "analyze_frames")
             /\ env[r].FACIAL_ANALYSIS_AVAILABLE => StageRan(r, "facial")
             /\ (env[r].transcribe_audio /\ env[r].TRANSCRIPTION_AVAILABLE)
                  => StageRan(r, "transcribe")
             /\ (StageOk(r, "transcribe") /\ results[r]["transcription"].v.text # "")
                  => StageRan(r, "evaluate")
        /\ results_file[r].written > 0 => StageRan(r, "write")

C5_Witness ==
    \E r \in Runs :
        /\ pc[r] = "done" /\ Len(log[r]) = 6
        /\ StageOk(r, "facial") /\ StageOk(r, "evaluate") /\ StageOk(r, "write")

\* the entries of the transcription/evaluation branch, absent keys included
Entry(d, k) == IF k \in DOMAIN d THEN d[k] ELSE [t |-> "absent"]
TransEntries(r) == [k \in {"transcription", "evaluation", "transcription_error",
                           "evaluation_error"} |-> Entry(results[r], k)]
FacialEntries(r) == [k \in {"facial_expression_analysis", "facial_analysis_error"}
                       |-> Entry(results[r], k)]

\* what the environment gave each branch of request r
TransOutcome(r) == <<env[r].TRANSCRIPTION_AVAILABLE, choice[r].trans, choice[r].eval>>
FacialOutcome(r) == <<env[r].FACIAL_ANALYSIS_AVAILABLE, choice[r].facial>>

\* C6: the two branches are independent: of two returned process_video calls
\* on the same upload, those with the same transcription/evaluation outcome
\* have the same transcription, evaluation, transcription_error and
\* evaluation_error entries whatever the facial outcome was, and those with
\* the same facial outcome have the same facial_expression_analysis and
\* facial_analysis_error entries whatever the transcription outcome was.
C6_BranchesIndependent ==
    \A r1, r2 \in Runs :
        (Returned(r1) /\ Returned(r2)) =>
            /\ TransOutcome(r1) = TransOutcome(r2) => TransEntries(r1) = TransEntries(r2)
            /\ FacialOutcome(r1) = FacialOutcome(r2) => FacialEntries(r1) = FacialEntries(r2)

C6_Witness ==
    \E r1, r2 \in Runs :
        /\ Returned(r1) /\ Returned(r2)
        /\ StageFailed(r1, "facial") /\ StageOk(r2, "facial")
        /\ TransOutcome(r1) = TransOutcome(r2) /\ StageOk(r1, "evaluate")
        /\ TransEntries(r1) = TransEntries(r2)

\* C7: a returned process_video call has written results.json exactly once,
\* returned its path, the file's content reads back as the returned dict, and
\* the dict has frame_analysis, transcription, evaluation and
\* facial_expression_analysis, the last three null unless their stage
\* returned a value.
C7_ResultsArtifact ==
    \A r \in Runs :
        Returned(r) =>
            /\ results_file[r].written = 1
            /\ pv_ret[r].path = ResultsPath(r)
            /\ JsonLoad(results_file[r].text) = pv_ret[r].results
            /\ {"frame_analysis", "transcription", "evaluation",
                "facial_expression_analysis"} \subseteq DOMAIN pv_ret[r].results
            /\ pv_ret[r].results["frame_analysis"] = FrameAnalysisOf(r)
            /\ ~StageOk(r, "transcribe") => pv_ret[r].results["transcription"] = None
            /\ ~StageOk(r, "evaluate") => pv_ret[r].results["evaluation"] = None
            /\ ~StageOk(r, "facial") => pv_ret[r].results["facial_expression_analysis"] = None
            /\ StageOk(r, "transcribe") => pv_ret[r].results["transcription"] # None
            /\ StageOk(r, "evaluate") => pv_ret[r].results["evaluation"] # None
            /\ StageOk(r, "facial") => pv_ret[r].results["facial_expression_analysis"] # None

C7_Witness ==
    \E r \in Runs :
        /\ Returned(r) /\ results_file[r].written = 1
        /\ pv_ret[r].results["transcription"] # None
        /\ pv_ret[r].results["evaluation"] = None
        /\ "evaluation_error" \in DOMAIN pv_ret[r].results

\* the exception upload_video caught for request r
CaughtBy(r) == IF choice[r].save = "failed" THEN Exc("OSError", "No space left on device")
               ELSE pv_ret[r].exc

ResultFields == {"results_file", "results", "frame_analysis", "transcription", "evaluation",
                 "facial_expression_analysis", "annotated_frames", "uploaded_file"}

\* C10: /upload/ answers every request: 500 with error, error_type and
\* message and no result field when saving or process_video raised
\* (error_type "ImportError" for an import error, else the class name), and
\* 200 with all result fields, results being frame_analysis, when
\* process_video returned.
C10_UploadAlwaysAnswers ==
    \A r \in Runs :
        pc[r] = "done" =>
            IF Returned(r)
            THEN /\ response[r].status = 200
                 /\ DOMAIN response[r].body = ResultFields
                 /\ response[r].body["results"] = response[r].body["frame_analysis"]
                 /\ response[r].body["frame_analysis"] = pv_ret[r].results["frame_analysis"]
                 /\ response[r].body["transcription"] = pv_ret[r].results["transcription"]
                 /\ response[r].body["evaluation"] = pv_ret[r].results["evaluation"]
                 /\ response[r].body["facial_expression_analysis"]
                      = pv_ret[r].results["facial_expression_analysis"]
                 /\ response[r].body["results_file"] = [url |-> pv_ret[r].path]
                 /\ response[r].body["annotated_frames"] = Sorted(DOMAIN annotated_dir[r])
            ELSE /\ response[r].status = 500
                 /\ {"error", "error_type", "message"} \subseteq DOMAIN response[r].body
                 /\ DOMAIN response[r].body \cap ResultFields = {}
                 /\ response[r].body["error"] = Str(CaughtBy(r).msg)
                 /\ response[r].body["error_type"] =
                      Str(IF IsImportError(CaughtBy(r).cls) THEN "ImportError"
                          ELSE CaughtBy(r).cls)

C10_Witness ==
    \E r \in Runs :
        /\ pc[r] = "done" /\ response[r].status = 500
        /\ response[r].body["error_type"] = Str("ZeroDivisionError")

\* N: the number of frames read before the first failed read
ReadableFrames(video) ==
    CHOOSE n \in 0..Len(video) :
        /\ \A i \in 1..n : video[i].ret
        /\ n < Len(video) => ~video[n + 1].ret

CeilDiv(n, d) == (n + d - 1) \div d

\* C8: for step >= 1, extract_frames saves exactly the frames 0, step,
\* 2*step, ... below the first failed read, as frame0.jpg .. frame{k-1}.jpg
\* in video order with k = ceil(N/step), touches no other file, and returns k.
C8_EveryStepthFrame ==
    (unit.fn = "extract_frames" /\ unit.in.cv2 /\ unit.in.step >= 1) =>
        LET N == ReadableFrames(unit.in.video)
            k == CeilDiv(N, unit.in.step)
            written == {FrameName(j) : j \in 0..(k - 1)}
        IN /\ unit.out.ok
           /\ unit.out.count = k
           /\ DOMAIN unit.out.folder = DOMAIN unit.in.folder \cup written
           /\ \A j \in 0..(k - 1) :
                unit.out.folder[FrameName(j)] =
                    Image(j * unit.in.step, unit.in.video[j * unit.in.step + 1].faces)
           /\ \A f \in DOMAIN unit.in.folder \ written :
                unit.out.folder[f] = unit.in.folder[f]
           /\ \A f \in DOMAIN unit.out.folder :
                unit.out.folder[f].idx < N \/ unit.out.folder[f] = unit.in.folder[f]

C8_Witness ==
    /\ unit.fn = "extract_frames" /\ unit.in.cv2 /\ unit.in.step = 2
    /\ ReadableFrames(unit.in.video) = 2 /\ Len(unit.in.video) = 3
    /\ unit.out.count = 1
    /\ unit.in.folder # EmptyFolder

\* the readable .jpg/.png files of a folder (extension compared in lower case)
ReadableFrameFiles(folder) ==
    {f \in DOMAIN folder : Lower(f.ext) \in {".jpg", ".png"} /\ folder[f].readable}

\* C9: analyze_frames returns one entry per readable .jpg/.png file of the
\* folder, keyed by the file name and holding its detected boxes, writes for
\* each key the one annotated image annot_<name>, and writes and returns
\* nothing for a file it cannot read.
C9_OneEntryPerReadableFrame ==
    (unit.fn = "analyze_frames" /\ unit.in.cv2) =>
        LET keys == ReadableFrameFiles(unit.in.folder)
            annots == {AnnotName(f) : f \in keys}
        IN /\ unit.out.ok
           /\ DOMAIN unit.out.results = keys
           /\ \A f \in keys : unit.out.results[f] = unit.in.folder[f].faces
           /\ Cardinality(annots) = Cardinality(keys)
           /\ DOMAIN unit.out.annotated = DOMAIN unit.in.annotated \cup annots
           /\ \A f \in keys :
                /\ unit.out.annotated[AnnotName(f)].rects = unit.in.folder[f].faces
                /\ unit.out.annotated[AnnotName(f)].idx = unit.in.folder[f].idx
           /\ \A a \in DOMAIN unit.in.annotated \ annots :
                unit.out.annotated[a] = unit.in.annotated[a]

C9_Witness ==
    /\ unit.fn = "analyze_frames" /\ unit.in.cv2
    /\ \E f, g \in DOMAIN unit.in.folder :
         /\ f.ext = ".JPG" /\ unit.in.folder[f].readable /\ unit.in.folder[f].faces # <<>>
         /\ g.ext = ".png" /\ ~unit.in.folder[g].readable
         /\ f \in DOMAIN unit.out.results /\ g \notin DOMAIN unit.out.results
    /\ unit.in.annotated # EmptyFolder

\* analyze returned a sentiment analysis (not the empty-text error)
Analyzed == unit.fn = "analyze" /\ unit.out.ok /\ ~IsBlank(unit.in.text)

\* C17 as stated: the overall label is the common label, or that of the more
\* confident method (VADER's on a tie), and the overall confidence is exactly
\* the mean of the two confidences and lies in [0,1].
C17_OverallIsExactMean ==
    Analyzed =>
        LET tb == unit.out.value.textblob
            vd == unit.out.value.vader
            overall == unit.out.value.overall_sentiment
        IN /\ overall.label \in {tb.label, vd.label}
           /\ tb.label = vd.label => overall.label = tb.label
           /\ (tb.label # vd.label /\ tb.confidence > vd.confidence) => overall.label = tb.label
           /\ (tb.label # vd.label /\ tb.confidence <= vd.confidence) => overall.label = vd.label
           /\ 2 * overall.confidence = tb.confidence + vd.confidence
           /\ overall.confidence >= 0 /\ overall.confidence <= 1000

\* C17 amended: the same, the overall confidence being the mean of the two
\* confidences rounded to three decimals (within half a thousandth of it).
C17_OverallIsRoundedMean ==
    Analyzed =>
        LET tb == unit.out.value.textblob
            vd == unit.out.value.vader
            overall == unit.out.value.overall_sentiment
        IN /\ overall.label \in {tb.label, vd.label}
           /\ tb.label = vd.label => overall.label = tb.label
           /\ (tb.label # vd.label /\ tb.confidence > vd.confidence) => overall.label = tb.label
           /\ (tb.label # vd.label /\ tb.confidence <= vd.confidence) => overall.label = vd.label
           /\ Abs(2 * overall.confidence - (tb.confidence + vd.confidence)) <= 1
           /\ overall.confidence >= 0 /\ overall.confidence <= 1000

C17_Witness ==
    /\ Analyzed
    /\ unit.out.value.textblob.label = "positive" /\ unit.out.value.vader.label = "negative"
    /\ unit.out.value.textblob.confidence = unit.out.value.vader.confidence
    /\ unit.out.value.overall_sentiment.label = "negative"

\* the model can give the scores: torch, model and transform are there
ModelUsable ==
    unit.in.config.dl_available /\ unit.in.config.has_model /\ unit.in.config.has_transform

\* C13: analyze_expression_ml gives the model's scores when the model is
\* available, and the result of the rule-based heuristic when deep-learning
\* support, the model or the transform is missing or the prediction raises;
\* whenever it returns, the result has exactly the keys confidence,
\* authenticity, leadership and pressure_handling.
C13_ModelOrFallback ==
    unit.fn = "analyze_expression_ml" =>
        /\ unit.out.ok => DOMAIN unit.out.value = ScoreKeys
        /\ (ModelUsable /\ unit.in.face_image.kind = "array" /\ ~unit.in.prediction.raises) =>
             /\ unit.out.ok /\ unit.out.by = "model"
             /\ unit.out.value.confidence = unit.in.prediction.scores[1]
             /\ unit.out.value.pressure_handling = unit.in.prediction.scores[4]
        /\ (~ModelUsable \/ unit.in.face_image.kind # "array" \/ unit.in.prediction.raises) =>
             /\ unit.out.by = "rule_based"
             /\ unit.out = AnalyzeExpressionRuleBased(unit.in.face_image)
             /\ unit.in.face_image.kind # "empty" => unit.out.ok

C13_Witness ==
    /\ unit.fn = "analyze_expression_ml" /\ ModelUsable /\ unit.in.prediction.raises
    /\ unit.in.face_image.kind = "array"
    /\ unit.out.ok /\ unit.out.by = "rule_based"
    /\ unit.out.value.authenticity < 750

Range(seq) == {seq[i] : i \in DOMAIN seq}

\* the frame files analyze_video_frames scores: readable, with a face
ScoredFiles(folder) ==
    {f \in DOMAIN folder : /\ Lower(f.ext) \in {".jpg", ".png", ".jpeg"}
                           /\ folder[f].readable
                           /\ folder[f].faces # <<>>}
ImageFiles(folder) == {f \in DOMAIN folder : Lower(f.ext) \in {".jpg", ".png", ".jpeg"}}

RECURSIVE SumOver(_, _, _)
SumOver(folder, files, key) ==
    IF files = {} THEN 0
    ELSE LET f == CHOOSE x \in files : TRUE
         IN ExpressionScores(LargestFace(folder[f].faces))[key]
              + SumOver(folder, files \ {f}, key)

\* C14: analyze_video_frames skips a frame that is unreadable or shows no
\* face and analyses the others; it scores the face of largest area; each
\* aggregated score is the mean (to three decimals) over the scored frames;
\* frame_count is the number of scored frames, frames_analyzed the number of
\* image files; without an image file the result is the error "No frames
\* found", without a face in any frame "No faces detected in frames".
C14_FramesSkippedAndAveraged ==
    unit.fn = "analyze_video_frames" =>
        LET folder == unit.in.folder
            scored == ScoredFiles(folder)
            n == Cardinality(scored)
        IN /\ unit.out.ok
           /\ ImageFiles(folder) = {} =>
                unit.out.value = Dict([error |-> "No frames found", scores |-> EmptyDict])
           /\ (ImageFiles(folder) # {} /\ scored = {}) =>
                unit.out.value =
                    Dict([error |-> "No faces detected in frames", scores |-> EmptyDict])
           /\ scored # {} =>
                /\ unit.out.value.v.frame_count = n
                /\ unit.out.value.v.frames_analyzed = Cardinality(ImageFiles(folder))
                /\ unit.out.value.v.frame_count <= unit.out.value.v.frames_analyzed
                /\ {a.frame : a \in Range(unit.out.value.v.frame_analyses)} = scored
                /\ \A a \in Range(unit.out.value.v.frame_analyses) :
                     a.face_bbox = LargestFace(folder[a.frame].faces)
                /\ \A k \in ScoreKeys :
                     2 * Abs(n * unit.out.value.v.scores[k] - SumOver(folder, scored, k)) <= n

\* C11: evaluate answers None, empty or whitespace-only text with
\* {error: "No text provided for evaluation", scores: {}}, and a missing text
\* analyzer with an error and empty scores; in both cases neither analyze nor
\* a calculate_* method is called.
C11_NoTextOrNoAnalyzer ==
    unit.fn = "evaluate" =>
        /\ IsBlank(unit.in.text) =>
             /\ unit.out.ok
             /\ unit.out.value = NoTextError
             /\ unit.out.calls = NoCalls
        /\ (~IsBlank(unit.in.text) /\ ~unit.in.analyzer_available) =>
             /\ unit.out.ok
             /\ DOMAIN unit.out.value = {"error", "scores"}
             /\ unit.out.value.error # NoTextError.error
             /\ unit.out.value.scores = EmptyDict
             /\ unit.out.calls = NoCalls

C11_Witness ==
    /\ unit.fn = "evaluate" /\ unit.in.text = BlankText /\ unit.in.analyzer_available
    /\ unit.out.value = NoTextError /\ unit.out.calls = NoCalls

ScoreNames ==
    {"communication_clarity", "confidence", "enthusiasm", "professionalism", "engagement"}

\* the evaluate call returned scores
Scored ==
    /\ unit.fn = "evaluate" /\ unit.out.ok
    /\ "overall_score" \in DOMAIN unit.out.value

C16_BatchIsPointwise ==
    /\ unit.fn = "analyze_batch" =>
         /\ unit.out.ok = (\A i \in 1..Len(unit.in.texts) :
                             Analyze(unit.in.texts[i], unit.in.tie_up).ok)
         /\ unit.out.ok =>
              /\ Len(unit.out.value) = Len(unit.in.texts)
              /\ \A i \in 1..Len(unit.in.texts) :
                   /\ unit.out.value[i] = Analyze(unit.in.texts[i], unit.in.tie_up).value
                   /\ IsBlank(unit.in.texts[i]) =>
                        unit.out.value[i] = [error |-> "Empty text provided", text |-> EmptyText]
                   /\ ~IsBlank(unit.in.texts[i]) =>
                        unit.out.value[i].text = CleanText(unit.in.texts[i])
    /\ (unit.fn = "analyze_sentiment_batch" /\ unit.out.status = 200) =>
         /\ unit.out.body.count = Len(unit.in.texts)
         /\ Len(unit.out.body.results) = Len(unit.in.texts)

C16_Witness ==
    /\ unit.fn = "analyze_batch" /\ unit.out.ok /\ Len(unit.in.texts) = 3
    /\ ~IsBlank(unit.in.texts[1]) /\ unit.in.texts[2] = BlankText
    /\ ~IsBlank(unit.in.texts[3]) /\ unit.in.texts[3] # unit.in.texts[1]
    /\ "overall_sentiment" \in DOMAIN unit.out.value[3]

\* the analyzer raises on one of the texts of the request
AnalyzerRaises ==
    IF unit.fn = "analyze_sentiment" THEN ~IsBlank(unit.in.text) /\ unit.in.text.lib_raises
    ELSE \E i \in 1..Len(unit.in.texts) :
            ~IsBlank(unit.in.texts[i]) /\ unit.in.texts[i].lib_raises

\* C15: both sentiment endpoints answer 503 exactly when the text analyzer is
\* unavailable, whatever the body, and then do not call the analyzer; when it
\* is available they answer 200 with the analysis, or 500 with an error field
\* when the analyzer raises; every request gets one of these answers.
C15_SentimentEndpoints ==
    unit.fn \in {"analyze_sentiment", "analyze_sentiment_batch"} =>
        /\ unit.out.status \in {200, 500, 503}
        /\ (unit.out.status = 503) = ~unit.in.available
        /\ unit.out.status = 503 =>
             (unit.out.analyzer_calls = 0 /\ "error" \in DOMAIN unit.out.body)
        /\ unit.in.available =>
             /\ unit.out.analyzer_calls = 1
             /\ (unit.out.status = 500) = AnalyzerRaises
             /\ unit.out.status = 500 => "error" \in DOMAIN unit.out.body
             /\ (unit.out.status = 200 /\ unit.fn = "analyze_sentiment") =>
                  unit.out.body = Analyze(unit.in.text, unit.in.tie_up).value
             /\ (unit.out.status = 200 /\ unit.fn = "analyze_sentiment_batch") =>
                  unit.out.body.results = AnalyzeBatch(unit.in.texts, unit.in.tie_up).value

C15_Witness ==
    /\ unit.fn = "analyze_sentiment_batch" /\ ~unit.in.available
    /\ unit.out.status = 503 /\ unit.out.analyzer_calls = 0
    /\ Len(unit.in.texts) = 2 /\ unit.in.texts[1] = RaisingText

TypeOK == \A r \in Runs : pc[r] \in {"off", "save", "extract", "analyze", "facial",
                                      "transcribe", "evaluate", "write", "respond", "done"}
====
